---- MODULE Spec2Model ----
(***************************************************************************)
(* RestartHelper.exe (restart_helper.c): main() as a state machine.        *)
(* C strings are sequences of one-character strings (no NUL inside), a     *)
(* char buffer holds the string before its terminator.  The buffer sizes   *)
(* are the ones of the source; long inputs are built by padding.           *)
(***************************************************************************)
EXTENDS Integers, Sequences, FiniteSets, TLC

PARAMS_BUF_SIZE == 2048
CMD_BUF_SIZE == 4096
\* <windows.h>
MAX_PATH == 260

\* Bounds of the enumerated inputs.
MaxShort == 2
MaxFile == 3

\* A null char pointer: no C string equals it (its element is no character).
NULL == <<"NULL">>
CR == "\r"
LF == "\n"
BS == "\\"
QUOTE == "\""

VARIABLES
    pc,          \* position in main
    argc,        \* argument count (program name included)
    argv,        \* argv[1..argc-1]
    appdata,     \* value of APPDATA in the environment, or NULL
    fs,          \* file system: path |-> content of the readable files
    exe_path,    \* char exe_path[PARAMS_BUF_SIZE]
    db_path,     \* char db_path[PARAMS_BUF_SIZE]
    param_path,  \* const char* param_path
    f,           \* FILE* f: the stream [path, pos, open], path NULL before fopen
    work_dir,    \* char work_dir[MAX_PATH]
    cmdline,     \* char cmdline[CMD_BUF_SIZE]
    launch,      \* the CreateProcessA call: its arguments and result
    pi,          \* PROCESS_INFORMATION handles: [hThread, hProcess] open flags
    exitCode     \* return value of main, -1 while running

vars == <<pc, argc, argv, appdata, fs, exe_path, db_path, param_path, f,
          work_dir, cmdline, launch, pi, exitCode>>

----
\* String helpers (libc)

Min(a, b) == IF a < b THEN a ELSE b

Take(s, n) == SubSeq(s, 1, Min(Len(s), n))

Pad(n) == [i \in 1..n |-> "a"]

\* strncpy(dst, src, bufsiz - 1); dst[bufsiz - 1] = '\0';
strncpy_term(src, bufsiz) == Take(src, bufsiz - 1)

\* snprintf(buf, bufsiz, ...): the formatted text cut to bufsiz - 1 chars
snprintf(bufsiz, text) == Take(text, bufsiz - 1)

IsCrLf(c) == c = CR \/ c = LF

IsSep(c) == c = "/" \/ c = BS

trim_crlf(s) ==
    IF \E i \in 1..Len(s) : IsCrLf(s[i])
    THEN LET first == CHOOSE i \in 1..Len(s) :
                          IsCrLf(s[i]) /\ \A j \in 1..(i-1) : ~IsCrLf(s[j])
         IN SubSeq(s, 1, first - 1)
    ELSE s

dirname_inplace(path) ==
    IF \E i \in 1..Len(path) : IsSep(path[i])
    THEN LET last == CHOOSE i \in 1..Len(path) :
                         IsSep(path[i]) /\ \A j \in (i+1)..Len(path) : ~IsSep(path[j])
         IN SubSeq(path, 1, last - 1)
    ELSE path

DefaultSuffix ==
    <<BS, "C","a","l","i","b","r","a","t","i","o","n","T","r","a","c","k","e","r",
      BS, "r","e","s","t","a","r","t","_","p","a","r","a","m","s",".","t","x","t">>

default_params_path(apd, bufsiz) ==
    IF apd = NULL \/ bufsiz < 32 THEN NULL
    ELSE snprintf(bufsiz, apd \o DefaultSuffix)

\* fgets(buf, bufsiz, f) on content from offset pos: the index of the last
\* character read (pos itself when nothing is left: fgets returns NULL).
fgets_end(content, pos, bufsiz) ==
    LET lim == Min(Len(content), pos + bufsiz - 1)
    IN IF \E i \in (pos+1)..lim : content[i] = LF
       THEN CHOOSE i \in (pos+1)..lim :
                content[i] = LF /\ \A j \in (pos+1)..(i-1) : content[j] # LF
       ELSE lim

fopen_ok(path) == path # <<>> /\ path \in DOMAIN fs

----
\* Inputs

PathChars == {"a", "/", BS}
FileChars == {"a", "/", CR, LF}

Strings(chars, n) == UNION { [1..k -> chars] : k \in 0..n }

\* s ++ padding ++ t with at most n free characters around the padding
Padded(chars, n, pads) ==
    { s \o Pad(p) \o t : p \in pads,
        <<s, t>> \in { st \in Strings(chars, n) \X Strings(chars, n) :
                        Len(st[1]) + Len(st[2]) <= n } }

ArgPads == {0, MAX_PATH, PARAMS_BUF_SIZE}
FilePads == {0, PARAMS_BUF_SIZE - 2, 2 * (PARAMS_BUF_SIZE - 1)}

ExampleExe ==
    {<<"F", "o", "o", ".", "e", "x", "e">>,
     <<"C", ":", BS, "A", "p", "p", "s", BS, "F", "o", "o", BS, "F", "o", "o", ".", "e", "x", "e">>}
ExampleFiles ==
    {<<"C", ":", BS, "A", BS, "F", ".", "e", "x", "e", LF, "D", ".", "d", "b", LF>>,
     <<"F", ".", "e", "x", "e", LF, LF>>,
     <<"a", CR, "b", LF, "c", LF>>}

ExeArgs == Padded(PathChars, MaxShort, ArgPads) \cup ExampleExe
DbArgs == {<<>>, <<"d">>, <<"d", " ", "b">>, Pad(PARAMS_BUF_SIZE)}
\* The characters fgets delivers (text mode: CR LF pairs already read as LF).
FileContents == Padded(FileChars, MaxFile, FilePads) \cup ExampleFiles
ArgFileContents == {<<"a", "/", "a", LF, "d", LF>>, <<"a", LF>>}
AppDataValues == {NULL, <<"C", ":", BS, "A">>}

Files(path, contents) == {<<>>} \cup { path :> c : c \in contents }

\* No argument: the parameter file, if any, is at the default location.
InitNoArgs ==
    /\ argc = 1
    /\ argv = <<>>
    /\ appdata \in AppDataValues
    /\ fs \in IF appdata = NULL THEN {<<>>}
              ELSE Files(appdata \o DefaultSuffix, FileContents)

\* One or two arguments; argv[1] may also name an existing parameter file.
InitArgs ==
    /\ argc \in 2..3
    /\ \E a1 \in ExeArgs :
          /\ argv \in IF argc = 2 THEN {<<a1>>} ELSE { <<a1, a2>> : a2 \in DbArgs }
          /\ fs \in IF a1 = <<>> THEN {<<>>} ELSE Files(a1, ArgFileContents)
    /\ appdata \in AppDataValues

NoLaunch ==
    [called |-> FALSE, lpApplicationName |-> NULL, lpCommandLine |-> NULL,
     lpCurrentDirectory |-> NULL, fileOpen |-> FALSE, result |-> FALSE]

Init ==
    /\ pc = "args"
    /\ (InitNoArgs \/ InitArgs)
    /\ exe_path = <<>>
    /\ db_path = <<>>
    /\ param_path = NULL
    /\ f = [path |-> NULL, pos |-> 0, open |-> FALSE]
    /\ work_dir = <<>>
    /\ cmdline = <<>>
    /\ launch = NoLaunch
    /\ pi = [hThread |-> FALSE, hProcess |-> FALSE]
    /\ exitCode = -1

----
\* main

Return(code) ==
    /\ pc' = "done"
    /\ exitCode' = code

fclose(stream) == [stream EXCEPT !.open = FALSE]

\* ParseArgs taking the first argument only when a second one follows
ParseArgsNeedsTwo ==
    /\ pc = "args"
    /\ exe_path' = IF argc >= 3 THEN strncpy_term(argv[1], PARAMS_BUF_SIZE) ELSE <<>>
    /\ db_path' = IF argc >= 3 THEN strncpy_term(argv[2], PARAMS_BUF_SIZE) ELSE <<>>
    /\ pc' = "mode"
    /\ UNCHANGED <<argc, argv, appdata, fs, param_path, f, work_dir, cmdline,
                   launch, pi, exitCode>>

\* lines 43-56: copy the explicit arguments
ParseArgs ==
    /\ pc = "args"
    /\ exe_path' = IF argc >= 2 THEN strncpy_term(argv[1], PARAMS_BUF_SIZE) ELSE <<>>
    /\ db_path' = IF argc >= 3 THEN strncpy_term(argv[2], PARAMS_BUF_SIZE) ELSE <<>>
    /\ pc' = "mode"
    /\ UNCHANGED <<argc, argv, appdata, fs, param_path, f, work_dir, cmdline,
                   launch, pi, exitCode>>

\* line 59, exe_path[0] != 0: the arguments are used
UseArgs ==
    /\ pc = "mode"
    /\ exe_path # <<>>
    /\ pc' = "check"
    /\ UNCHANGED <<argc, argv, appdata, fs, exe_path, db_path, param_path, f,
                   work_dir, cmdline, launch, pi, exitCode>>

\* lines 59-62: choose the parameter file
ResolveParamPath ==
    /\ pc = "mode"
    /\ exe_path = <<>>
    /\ param_path' = IF argc >= 2 THEN argv[1]
                     ELSE default_params_path(appdata, MAX_PATH)
    /\ IF param_path' = NULL THEN Return(1)
       ELSE pc' = "open" /\ UNCHANGED exitCode
    /\ UNCHANGED <<argc, argv, appdata, fs, exe_path, db_path, f, work_dir,
                   cmdline, launch, pi>>

\* lines 64-65
OpenFile ==
    /\ pc = "open"
    /\ IF fopen_ok(param_path)
       THEN /\ f' = [path |-> param_path, pos |-> 0, open |-> TRUE]
            /\ pc' = "read1"
            /\ UNCHANGED exitCode
       ELSE /\ Return(1)
            /\ UNCHANGED f
    /\ UNCHANGED <<argc, argv, appdata, fs, exe_path, db_path, param_path,
                   work_dir, cmdline, launch, pi>>

\* line 67
ReadExePath ==
    /\ pc = "read1"
    /\ LET content == fs[f.path]
           end == fgets_end(content, f.pos, PARAMS_BUF_SIZE)
       IN IF end = f.pos
          THEN /\ f' = fclose(f)
               /\ Return(1)
               /\ UNCHANGED exe_path
          ELSE /\ exe_path' = SubSeq(content, f.pos + 1, end)
               /\ f' = [f EXCEPT !.pos = end]
               /\ pc' = "read2"
               /\ UNCHANGED exitCode
    /\ UNCHANGED <<argc, argv, appdata, fs, db_path, param_path, work_dir,
                   cmdline, launch, pi>>

\* ReadDbPath without the fclose of the short-read branch
ReadDbPathLeak ==
    /\ pc = "read2"
    /\ LET content == fs[f.path]
           end == fgets_end(content, f.pos, PARAMS_BUF_SIZE)
       IN IF end = f.pos
          THEN /\ Return(1)
               /\ UNCHANGED <<db_path, f>>
          ELSE /\ db_path' = SubSeq(content, f.pos + 1, end)
               /\ f' = fclose([f EXCEPT !.pos = end])
               /\ pc' = "trim"
               /\ UNCHANGED exitCode
    /\ UNCHANGED <<argc, argv, appdata, fs, exe_path, param_path, work_dir,
                   cmdline, launch, pi>>

\* lines 68-69
ReadDbPath ==
    /\ pc = "read2"
    /\ LET content == fs[f.path]
           end == fgets_end(content, f.pos, PARAMS_BUF_SIZE)
       IN IF end = f.pos
          THEN /\ f' = fclose(f)
               /\ Return(1)
               /\ UNCHANGED db_path
          ELSE /\ db_path' = SubSeq(content, f.pos + 1, end)
               /\ f' = fclose([f EXCEPT !.pos = end])
               /\ pc' = "trim"
               /\ UNCHANGED exitCode
    /\ UNCHANGED <<argc, argv, appdata, fs, exe_path, param_path, work_dir,
                   cmdline, launch, pi>>

\* lines 71-72
TrimLines ==
    /\ pc = "trim"
    /\ exe_path' = trim_crlf(exe_path)
    /\ db_path' = trim_crlf(db_path)
    /\ pc' = "check"
    /\ UNCHANGED <<argc, argv, appdata, fs, param_path, f, work_dir, cmdline,
                   launch, pi, exitCode>>

\* CheckExePath returning success for an empty path
CheckExePathZero ==
    /\ pc = "check"
    /\ IF exe_path = <<>> THEN Return(0)
       ELSE pc' = "prepare" /\ UNCHANGED exitCode
    /\ UNCHANGED <<argc, argv, appdata, fs, exe_path, db_path, param_path, f,
                   work_dir, cmdline, launch, pi>>

\* line 75
CheckExePath ==
    /\ pc = "check"
    /\ IF exe_path = <<>> THEN Return(1)
       ELSE pc' = "prepare" /\ UNCHANGED exitCode
    /\ UNCHANGED <<argc, argv, appdata, fs, exe_path, db_path, param_path, f,
                   work_dir, cmdline, launch, pi>>

\* lines 83-87
FormatCmdline(exe, db) ==
    IF db # <<>>
    THEN <<QUOTE>> \o exe \o <<QUOTE, " ", "-", "-", "d", "b", " ", QUOTE>> \o db \o <<QUOTE>>
    ELSE <<QUOTE>> \o exe \o <<QUOTE>>

\* lines 77-87: working directory and command line
Prepare ==
    /\ pc = "prepare"
    /\ work_dir' = dirname_inplace(strncpy_term(exe_path, MAX_PATH))
    /\ cmdline' = snprintf(CMD_BUF_SIZE, FormatCmdline(exe_path, db_path))
    /\ pc' = "launch"
    /\ UNCHANGED <<argc, argv, appdata, fs, exe_path, db_path, param_path, f,
                   launch, pi, exitCode>>

\* lines 89-101: CreateProcessA succeeds or fails
CreateProcess ==
    /\ pc = "launch"
    /\ \E ok \in BOOLEAN :
          /\ launch' = [called |-> TRUE,
                        lpApplicationName |-> exe_path,
                        lpCommandLine |-> cmdline,
                        lpCurrentDirectory |-> IF work_dir # <<>> THEN work_dir ELSE NULL,
                        fileOpen |-> f.open,
                        result |-> ok]
          /\ IF ok
             THEN /\ pi' = [hThread |-> TRUE, hProcess |-> TRUE]
                  /\ pc' = "close"
                  /\ UNCHANGED exitCode
             ELSE /\ Return(1)
                  /\ UNCHANGED pi
    /\ UNCHANGED <<argc, argv, appdata, fs, exe_path, db_path, param_path, f,
                   work_dir, cmdline>>

\* lines 102-104
CloseHandles ==
    /\ pc = "close"
    /\ pi' = [hThread |-> FALSE, hProcess |-> FALSE]
    /\ Return(0)
    /\ UNCHANGED <<argc, argv, appdata, fs, exe_path, db_path, param_path, f,
                   work_dir, cmdline, launch>>

Next ==
    \/ ParseArgs
    \/ UseArgs
    \/ ResolveParamPath
    \/ OpenFile
    \/ ReadExePath
    \/ ReadDbPath
    \/ TrimLines
    \/ CheckExePath
    \/ Prepare
    \/ CreateProcess
    \/ CloseHandles

Spec == Init /\ [][Next]_vars

TypeOK ==
    /\ pc \in {"args", "mode", "open", "read1", "read2", "trim", "check",
               "prepare", "launch", "close", "done"}
    /\ argc \in 1..3
    /\ exitCode \in {-1, 0, 1}
    /\ (exitCode = -1) <=> (pc # "done")
    /\ Len(exe_path) < PARAMS_BUF_SIZE
    /\ Len(db_path) < PARAMS_BUF_SIZE
    /\ Len(work_dir) < MAX_PATH
    /\ Len(cmdline) < CMD_BUF_SIZE

----
\* What the description says of the inputs, stated on the inputs themselves

HasSep(s) == \E i \in 1..Len(s) : IsSep(s[i])

\* index of the first LF after position from, Len(c) + 1 when there is none
FirstLF(c, from) ==
    IF \E i \in (from+1)..Len(c) : c[i] = LF
    THEN CHOOSE i \in (from+1)..Len(c) :
             c[i] = LF /\ \A j \in (from+1)..(i-1) : c[j] # LF
    ELSE Len(c) + 1

Line1(c) == SubSeq(c, 1, FirstLF(c, 0) - 1)

Line2(c) == SubSeq(c, FirstLF(c, 0) + 1, FirstLF(c, FirstLF(c, 0)) - 1)

\* a second line is present: something follows the first newline
HasTwoLines(c) == FirstLF(c, 0) < Len(c)

\* s without its trailing CR / LF characters
StripTrailing(s) ==
    LET keep == CHOOSE k \in 0..Len(s) :
                    /\ k = 0 \/ ~IsCrLf(s[k])
                    /\ \A j \in (k+1)..Len(s) : IsCrLf(s[j])
    IN SubSeq(s, 1, keep)

\* s up to its final separator
BeforeLastSep(s) ==
    LET last == CHOOSE i \in 1..Len(s) :
                    IsSep(s[i]) /\ \A j \in (i+1)..Len(s) : ~IsSep(s[j])
    IN SubSeq(s, 1, last - 1)

Quoted(s) == <<QUOTE>> \o s \o <<QUOTE>>

Readable(path) == path # NULL /\ path # <<>> /\ path \in DOMAIN fs

Usable(path) == Readable(path) /\ HasTwoLines(fs[path])

DefaultPath == IF appdata = NULL THEN NULL ELSE appdata \o DefaultSuffix

\* the parameter file of file mode: the argument, else the default location
FileModePath == IF argc >= 2 THEN argv[1] ELSE DefaultPath

\* no usable executable path on the command line
FileMode == argc = 1 \/ argv[1] = <<>>

Done == pc = "done"

----
\* C1: main returns 0 exactly when CreateProcess was called and succeeded,
\* and 1 on every other path.
C1_ExitCode ==
    Done => /\ exitCode \in {0, 1}
            /\ exitCode = 0 <=> (launch.called /\ launch.result)

C1_Witness == Done /\ exitCode = 0 /\ launch.called /\ launch.result /\ FileMode

\* C2 as stated: the command line passed to CreateProcess is "E" --db "S"
\* for a non-empty S and "E" for an empty S, for every accepted E and S.
C2_Cmdline ==
    launch.called =>
        launch.lpCommandLine =
            IF db_path # <<>>
            THEN Quoted(exe_path) \o <<" ", "-", "-", "d", "b", " ">> \o Quoted(db_path)
            ELSE Quoted(exe_path)

\* C3 as stated: one argument and no usable parameter file give exit code 1.
C3_OneArgExitsOne ==
    (Done /\ argc = 2 /\ ~Usable(argv[1]) /\ ~Usable(DefaultPath)) => exitCode = 1

\* C3 amended: with one argument and no usable parameter file, an empty
\* argument gives exit code 1 without a launch; a non-empty argument is
\* launched as the executable and the exit code is 0 if CreateProcess
\* succeeds, 1 if it fails.
C3_OneArgLaunched ==
    (Done /\ argc = 2 /\ ~Usable(argv[1]) /\ ~Usable(DefaultPath)) =>
        IF argv[1] = <<>>
        THEN exitCode = 1 /\ ~launch.called
        ELSE /\ launch.called
             /\ launch.lpApplicationName = Take(argv[1], PARAMS_BUF_SIZE - 1)
             /\ exitCode = IF launch.result THEN 0 ELSE 1

C3_Witness ==
    /\ Done /\ argc = 2 /\ ~Usable(argv[1]) /\ ~Usable(DefaultPath)
    /\ argv[1] # <<>> /\ exitCode = 0

\* C4 as stated: a single non-empty argument naming a readable two-line
\* parameter file is opened and read: line 1 is the executable path, line 2
\* the secondary path.
C4_ArgParamFile ==
    (Done /\ argc = 2 /\ argv[1] # <<>> /\ Usable(argv[1])) =>
        /\ f.path = argv[1]
        /\ exe_path = StripTrailing(Line1(fs[argv[1]]))
        /\ db_path = StripTrailing(Line2(fs[argv[1]]))

\* C5 as stated: an executable path without '/' and '\' is launched with a
\* NULL working directory.
C5_NoSepUnset ==
    (launch.called /\ ~HasSep(launch.lpApplicationName)) =>
        launch.lpCurrentDirectory = NULL

\* C6 as stated: an executable path with a separator is launched in the
\* path cut at its final separator (an empty directory being passed as NULL).
C6_DirOfExe ==
    (launch.called /\ HasSep(launch.lpApplicationName)) =>
        LET dir == BeforeLastSep(launch.lpApplicationName)
        IN launch.lpCurrentDirectory = IF dir = <<>> THEN NULL ELSE dir

\* C7 as stated: in file mode an unresolved path, an unreadable file, a file
\* of fewer than two lines or an empty first line give exit code 1 and no
\* CreateProcess call.
C7_FileModeFailure ==
    (Done /\ FileMode /\
        (\/ ~Readable(FileModePath)
         \/ ~HasTwoLines(fs[FileModePath])
         \/ StripTrailing(Line1(fs[FileModePath])) = <<>>)) =>
        exitCode = 1 /\ ~launch.called

\* C8 as stated: from a parameter file of at least two lines, the
\* executable path is line 1 and the secondary path is line 2, each without
\* its trailing CR / LF characters and nothing else removed.
C8_LinesKept ==
    (pc \in {"check", "prepare", "launch", "close", "done"}
        /\ f.path # NULL /\ HasTwoLines(fs[f.path])) =>
        /\ exe_path = StripTrailing(Line1(fs[f.path]))
        /\ db_path = StripTrailing(Line2(fs[f.path]))

\* C10: in a terminal state the parameter file and both process handles are
\* closed, and the file is closed when CreateProcess is called.
C10_Resources ==
    /\ Done => (~f.open /\ ~pi.hThread /\ ~pi.hProcess)
    /\ launch.called => (~launch.fileOpen /\ ~f.open)

C10_Witness ==
    Done /\ f.path # NULL /\ ~f.open /\ launch.called /\ launch.result /\ exitCode = 0
====
